---- MODULE Spec2Model ----
(***************************************************************************)
(* Model of Scripts/analyze_complexity.py: the scan-score-rank-recommend   *)
(* pipeline.  Text is a sequence of one-character strings, so that the     *)
(* regular expressions, the path splitting and the lint-log parsing are    *)
(* computed character by character as the code computes them.              *)
(* Scores are kept in tenths (the weights 0.1 .. 0.5 become 1 .. 5).       *)
(***************************************************************************)
EXTENDS Integers, Sequences, FiniteSets, TLC

VARIABLES pc, argv, fs, lint_issues, lineIdx, fileIdx, metrics, collected,
          stdout, stderr, exit_status, content, measured

vars == <<pc, argv, fs, lint_issues, lineIdx, fileIdx, metrics, collected,
          stdout, stderr, exit_status, content, measured>>

(***************************************************************************)
(* Bounds of the model.                                                    *)
(***************************************************************************)
MaxFiles == 3
MaxLintLines == 3
MaxFrags == 2
MaxRecords == 4
LongExtra == 1

(***************************************************************************)
(* Character classes of Python's re module, restricted to the characters   *)
(* that occur in the model's texts.                                        *)
(***************************************************************************)
WordChars ==
  {"a","b","c","d","e","f","g","h","i","j","k","l","m","n","o","p","q","r",
   "s","t","u","v","w","x","y","z","B","D","E","F","S","T","_","0","1","2",
   "3"}

SpaceChars == {" ", "\n", "\t"}

IsWord(s, i) == i >= 1 /\ i <= Len(s) /\ s[i] \in WordChars

\* \b before the character at position i (i = Len(s)+1 is the end of text)
Boundary(s, i) == IsWord(s, i - 1) # IsWord(s, i)

\* the literal lit occurs in s starting at position i
LitAt(lit, s, i) ==
  /\ i >= 1
  /\ i + Len(lit) - 1 <= Len(s)
  /\ \A k \in 1..Len(lit) : s[i + k - 1] = lit[k]

RECURSIVE RunLen(_, _, _)
\* length of the longest run of characters of class cls starting at i
RunLen(cls, s, i) ==
  IF i <= Len(s) /\ s[i] \in cls THEN 1 + RunLen(cls, s, i + 1) ELSE 0

(***************************************************************************)
(* The regular expressions of the analyzer.  A pattern is                  *)
(*   pre  : a leading \b                                                   *)
(*   alts : the alternative literals, in the order the regex tries them    *)
(*   post : a trailing \b                                                  *)
(*   nla  : the character of a negative look-ahead, or "" for none         *)
(*   tail : TRUE for a trailing \s+\w+                                     *)
(***************************************************************************)
Pat(pre, alts, post, nla, tail) ==
  [pre |-> pre, alts |-> alts, post |-> post, nla |-> nla, tail |-> tail]

s_class == <<"c","l","a","s","s">>
s_struct == <<"s","t","r","u","c","t">>
s_enum == <<"e","n","u","m">>
s_protocol == <<"p","r","o","t","o","c","o","l">>
s_func == <<"f","u","n","c">>
s_if == <<"i","f">>
s_guard == <<"g","u","a","r","d">>
s_switch == <<"s","w","i","t","c","h">>
s_while == <<"w","h","i","l","e">>
s_for == <<"f","o","r">>
s_as == <<"a","s">>
s_try == <<"t","r","y">>
s_escaping == <<"@","e","s","c","a","p","i","n","g">>
s_closure == <<"c","l","o","s","u","r","e">>
s_init == <<"i","n","i","t">>
s_deinit == <<"d","e","i","n","i","t">>
s_objc == <<"@","o","b","j","c">>
s_extension == <<"e","x","t","e","n","s","i","o","n">>

p_class == Pat(TRUE, <<s_class>>, FALSE, "", TRUE)
p_struct == Pat(TRUE, <<s_struct>>, FALSE, "", TRUE)
p_enum == Pat(TRUE, <<s_enum>>, FALSE, "", TRUE)
p_protocol == Pat(TRUE, <<s_protocol>>, FALSE, "", TRUE)
p_func == Pat(TRUE, <<s_func>>, FALSE, "", TRUE)
p_brace == Pat(FALSE, << <<"{">> >>, FALSE, "", FALSE)
p_cond == Pat(TRUE, <<s_if, s_guard, s_switch, s_while, s_for>>, TRUE, "", FALSE)
p_unwrap == Pat(FALSE, << <<"!">> >>, FALSE, "=", FALSE)
p_cast == Pat(FALSE, << s_as \o <<"!">> >>, FALSE, "", FALSE)
p_opttry == Pat(FALSE, << s_try \o <<"?">> >>, FALSE, "", FALSE)
p_forcetry == Pat(FALSE, << s_try \o <<"!">> >>, FALSE, "", FALSE)
p_chain == Pat(FALSE, << <<"?", ".">> >>, FALSE, "", FALSE)
p_coalesce == Pat(FALSE, << <<"?", "?">> >>, FALSE, "", FALSE)
p_escaping == Pat(FALSE, <<s_escaping>>, FALSE, "", FALSE)
p_closure == Pat(TRUE, <<s_closure>>, TRUE, "", FALSE)
p_failable == Pat(TRUE, << s_init \o <<"?">> >>, FALSE, "", FALSE)
p_deinit == Pat(TRUE, <<s_deinit>>, TRUE, "", FALSE)
p_objc == Pat(FALSE, <<s_objc>>, TRUE, "", FALSE)
p_extension == Pat(TRUE, <<s_extension>>, TRUE, "", FALSE)

\* length of the match of alternative lit of p at position i, 0 if none
AltLen(p, lit, s, i) ==
  LET e == i + Len(lit)
      ws == RunLen(SpaceChars, s, e)
      wd == RunLen(WordChars, s, e + ws)
  IN  IF ~LitAt(lit, s, i) THEN 0
      ELSE IF p.post /\ ~Boundary(s, e) THEN 0
      ELSE IF p.nla # "" /\ e <= Len(s) /\ s[e] = p.nla THEN 0
      ELSE IF p.tail THEN (IF ws >= 1 /\ wd >= 1 THEN Len(lit) + ws + wd ELSE 0)
      ELSE Len(lit)

\* length of the regex match starting exactly at position i, 0 if none
MatchLenAt(p, s, i) ==
  IF p.pre /\ ~Boundary(s, i) THEN 0
  ELSE LET ok == {k \in 1..Len(p.alts) : AltLen(p, p.alts[k], s, i) > 0}
       IN  IF ok = {} THEN 0
           ELSE LET k == CHOOSE m \in ok : \A n \in ok : m <= n
                IN  AltLen(p, p.alts[k], s, i)

RECURSIVE ScanFrom(_, _, _)
ScanFrom(p, s, i) ==
  IF i > Len(s) THEN 0
  ELSE LET n == MatchLenAt(p, s, i)
       IN  IF n > 0 THEN 1 + ScanFrom(p, s, i + n) ELSE ScanFrom(p, s, i + 1)

\* len(re.findall(p, s)): leftmost non-overlapping matches
FindAll(p, s) == ScanFrom(p, s, 1)

count_types(c) ==
  FindAll(p_class, c) + FindAll(p_struct, c) + FindAll(p_enum, c)
    + FindAll(p_protocol, c)

count_functions(c) == FindAll(p_func, c)

\* the table complex_patterns: <<pattern, weight in tenths>>
complex_patterns ==
  << <<p_opttry, 2>>, <<p_forcetry, 4>>, <<p_chain, 1>>, <<p_coalesce, 2>>,
     <<p_escaping, 3>>, <<p_closure, 2>>, <<p_failable, 2>>, <<p_deinit, 3>>,
     <<p_objc, 2>>, <<p_extension, 1>> >>

RECURSIVE pattern_score(_, _)
pattern_score(c, k) ==
  IF k = 0 THEN 0
  ELSE pattern_score(c, k - 1)
         + FindAll(complex_patterns[k][1], c) * complex_patterns[k][2]

\* a scorer that forgets the force-cast term
calculate_complexity_no_cast(c) ==
  LET nesting_score == FindAll(p_brace, c) * 1
      conditionals == FindAll(p_cond, c) * 2
      force_unwrap == FindAll(p_unwrap, c) * 3
  IN  nesting_score + conditionals + force_unwrap
        + pattern_score(c, Len(complex_patterns))

\* the score in tenths
calculate_complexity(c) ==
  LET nesting_score == FindAll(p_brace, c) * 1
      conditionals == FindAll(p_cond, c) * 2
      force_unwrap == FindAll(p_unwrap, c) * 3
      force_cast == FindAll(p_cast, c) * 3
  IN  nesting_score + conditionals + force_unwrap + force_cast
        + pattern_score(c, Len(complex_patterns))

\* len(content.splitlines()) for texts whose only line terminator is \n
line_count(c) ==
  Cardinality({i \in 1..Len(c) : c[i] = "\n"})
    + (IF Len(c) > 0 /\ c[Len(c)] # "\n" THEN 1 ELSE 0)

(***************************************************************************)
(* Paths (os.path) and the eligibility filter.                             *)
(***************************************************************************)
sep == "/"

s_swift == <<".","s","w","i","f","t">>
s_lintname ==
  <<"s","w","i","f","t","l","i","n","t","_","r","e","p","o","r","t",".",
    "t","x","t">>

excluded_dirs ==
  { <<".","b","u","i","l","d">>, <<".","g","i","t">>, <<"T","e","s","t","s">>,
    <<"E","x","a","m","p","l","e","s">>,
    <<"D","o","c","u","m","e","n","t","a","t","i","o","n">> }

RECURSIVE SplitFrom(_, _, _, _)
\* str.split(ch): cur is the segment being read, i the next position
SplitFrom(s, ch, i, cur) ==
  IF i > Len(s) THEN <<cur>>
  ELSE IF s[i] = ch THEN <<cur>> \o SplitFrom(s, ch, i + 1, <<>>)
  ELSE SplitFrom(s, ch, i + 1, Append(cur, s[i]))

Split(s, ch) == SplitFrom(s, ch, 1, <<>>)

EndsWith(s, suf) == Len(s) >= Len(suf) /\ LitAt(suf, s, Len(s) - Len(suf) + 1)

\* the Python operator `lit in s`
Contains(s, lit) == \E i \in 1..Len(s) : LitAt(lit, s, i)

\* os.path.join(a, b)
Join(a, b) ==
  IF Len(b) > 0 /\ b[1] = sep THEN b
  ELSE IF Len(a) = 0 \/ a[Len(a)] = sep THEN a \o b
  ELSE a \o <<sep>> \o b

RECURSIVE JoinAll(_, _)
\* the directory os.walk reports for the sub-directory segs of top
JoinAll(top, segs) ==
  IF segs = <<>> THEN top
  ELSE JoinAll(Join(top, Head(segs)), Tail(segs))

\* a filter that looks only at the directory the file lies in
should_analyze_file_parent_only(file_path) ==
  LET parts == Split(file_path, sep)
  IN  IF Len(parts) >= 2 /\ parts[Len(parts) - 1] \in excluded_dirs THEN FALSE
      ELSE EndsWith(file_path, s_swift)

should_analyze_file(file_path) ==
  LET parts == Split(file_path, sep)
  IN  IF \E k \in 1..Len(parts) : parts[k] \in excluded_dirs THEN FALSE
      ELSE EndsWith(file_path, s_swift)

\* the working directory of the run, as path segments
cwd == << <<"w">> >>

RECURSIVE DropDots(_)
DropDots(segs) ==
  IF segs = <<>> THEN <<>>
  ELSE IF Head(segs) = <<>> \/ Head(segs) = <<".">> THEN DropDots(Tail(segs))
  ELSE <<Head(segs)>> \o DropDots(Tail(segs))

\* the segments of os.path.abspath(p), for paths without ".."
AbsSegs(p) ==
  IF Len(p) > 0 /\ p[1] = sep THEN DropDots(Split(p, sep))
  ELSE cwd \o DropDots(Split(p, sep))

RECURSIVE CommonLen(_, _)
CommonLen(a, b) ==
  IF a = <<>> \/ b = <<>> \/ Head(a) # Head(b) THEN 0
  ELSE 1 + CommonLen(Tail(a), Tail(b))

RECURSIVE JoinSegs(_)
JoinSegs(segs) ==
  IF segs = <<>> THEN <<>>
  ELSE IF Len(segs) = 1 THEN Head(segs)
  ELSE Head(segs) \o <<sep>> \o JoinSegs(Tail(segs))

\* os.path.relpath(path, start)
relpath(path, start) ==
  LET sl == AbsSegs(start)
      pl == AbsSegs(path)
      i == CommonLen(sl, pl)
      ups == [k \in 1..(Len(sl) - i) |-> <<".", ".">>]
      rel == ups \o SubSeq(pl, i + 1, Len(pl))
  IN  IF rel = <<>> THEN <<".">> ELSE JoinSegs(rel)

(***************************************************************************)
(* The lint map: a defaultdict(int) from path text to count.               *)
(***************************************************************************)
\* lint_issues.get(k, 0): reads without inserting
Get(m, k) == IF k \in DOMAIN m THEN m[k] ELSE 0

\* lint_issues[k] += 1
Incr(m, k) == [x \in DOMAIN m \cup {k} |-> IF x = k THEN Get(m, k) + 1 ELSE m[x]]

s_warning == <<"w","a","r","n","i","n","g",":"," ">>
s_error == <<"e","r","r","o","r",":"," ">>

\* a loader that recognises only the warning marker
IsDiagnostic_warning_only(line) == Contains(line, s_warning)

\* the test of line 86
IsDiagnostic(line) == Contains(line, s_warning) \/ Contains(line, s_error)

\* line.split(':')[0]
LintKey(line) == Split(line, ":")[1]

(***************************************************************************)
(* The inputs of a run: the file tree under the scanned root, in the       *)
(* order os.walk lists it (the root's files first, then each               *)
(* sub-directory), and the optional lint log.                              *)
(***************************************************************************)
t_a == <<"i","f"," ","x","!"," ","{","\n">>
t_b == <<"f","u","n","c"," ","f","\n","c","l","a","s","s"," ","B","\n">>
t_c == <<>>
t_d == <<"t","r","y","!"," ","x">>

d_S == <<"S">>
d_build == <<".","b","u","i","l","d">>

FilePalette ==
  << [dir |-> <<>>, name |-> <<"a">> \o s_swift, content |-> t_a],
     [dir |-> <<>>, name |-> <<"n",".","t","x","t">>, content |-> t_d],
     [dir |-> <<d_S>>, name |-> <<"b">> \o s_swift, content |-> t_b],
     [dir |-> <<d_S>>, name |-> <<"c">> \o s_swift, content |-> t_c],
     [dir |-> <<d_build, d_S>>, name |-> <<"d">> \o s_swift, content |-> t_a] >>

\* the palette files whose read may fail (the others are never opened)
MayFail == {1, 3, 4}

LinePalette ==
  << <<"a",".","s","w","i","f","t",":","1",":"," ","w","a","r","n","i","n","g",
       ":"," ","w","\n">>,
     <<"r","/","a",".","s","w","i","f","t",":","2",":"," ","e","r","r","o","r",
       ":"," ","e","\n">>,
     <<"a",".","s","w","i","f","t",":","3",":"," ","n","o","t","e","\n">> >>

s_r == <<"r">>
s_dot == <<".">>
s_n == <<"n">>
s_x == <<"x">>

Roots == {s_r, s_dot}

RECURSIVE TreeOf(_, _, _)
\* the palette files of S from index k on, in palette order
TreeOf(S, U, k) ==
  IF k > Len(FilePalette) THEN <<>>
  ELSE IF k \in S
       THEN << [dir |-> FilePalette[k].dir, name |-> FilePalette[k].name,
                content |-> FilePalette[k].content, readable |-> k \notin U] >>
              \o TreeOf(S, U, k + 1)
       ELSE TreeOf(S, U, k + 1)

Trees ==
  { TreeOf(S, U, 1) :
      S \in {T \in SUBSET (1..Len(FilePalette)) : Cardinality(T) <= MaxFiles},
      U \in SUBSET MayFail }

LineSeqs ==
  UNION { [1..n -> 1..Len(LinePalette)] : n \in 0..MaxLintLines }

LintLogs ==
  { [exists |-> FALSE, readable |-> FALSE, lines |-> <<>>],
    [exists |-> TRUE, readable |-> FALSE, lines |-> <<>>] }
  \cup { [exists |-> TRUE, readable |-> TRUE,
          lines |-> [k \in 1..Len(q) |-> LinePalette[q[k]]]] : q \in LineSeqs }

NoMeasure == [type_count |-> -1, function_count |-> -1, complexity_score |-> -1]

Init ==
  /\ pc = "main"
  /\ \E root \in Roots, tree \in Trees, lint \in LintLogs :
       fs = [root |-> root, tree |-> tree, lint |-> lint]
  /\ \/ argv = <<fs.root>>
     \/ /\ Len(fs.tree) <= 1
        /\ Len(fs.lint.lines) <= 1
        /\ argv \in {<<>>, <<s_n>>, <<fs.root, s_x>>}
  /\ lint_issues = <<>>
  /\ lineIdx = 0
  /\ fileIdx = 0
  /\ metrics = <<>>
  /\ collected = <<>>
  /\ stdout = <<>>
  /\ stderr = <<>>
  /\ exit_status = -1
  /\ content = <<>>
  /\ measured = NoMeasure

(***************************************************************************)
(* The file system as the run sees it.                                     *)
(***************************************************************************)
root_dir == argv[1]

isdir(p) == p = fs.root

lint_report == Join(root_dir, s_lintname)

\* os.path.exists
exists(p) == fs.lint.exists /\ p = Join(fs.root, s_lintname)

\* the (root, file) pairs os.walk yields; a top that is no directory yields none
WalkList(top) == IF isdir(top) THEN fs.tree ELSE <<>>

FilePath(e) == Join(JoinAll(root_dir, e.dir), e.name)

Line(kind, path, vals) == [kind |-> kind, path |-> path, vals |-> vals]

(***************************************************************************)
(* __main__                                                                *)
(***************************************************************************)
MainUsage ==
  /\ pc = "main"
  /\ Len(argv) # 1
  /\ stdout' = Append(stdout, Line("usage", <<>>, <<>>))
  /\ exit_status' = 1
  /\ pc' = "done"
  /\ UNCHANGED <<argv, fs, lint_issues, lineIdx, fileIdx, metrics, collected,
                 stderr, content, measured>>

MainRun ==
  /\ pc = "main"
  /\ Len(argv) = 1
  /\ pc' = "lint"
  /\ UNCHANGED <<argv, fs, lint_issues, lineIdx, fileIdx, metrics, collected,
                 stdout, stderr, exit_status, content, measured>>

(***************************************************************************)
(* analyze_swift_files: the lint report                                    *)
(***************************************************************************)
LintAbsent ==
  /\ pc = "lint"
  /\ ~exists(lint_report)
  /\ pc' = "walk"
  /\ fileIdx' = 1
  /\ UNCHANGED <<argv, fs, lint_issues, lineIdx, metrics, collected, stdout,
                 stderr, exit_status, content, measured>>

\* open() raises: nothing catches it, the interpreter prints the traceback
LintOpenFails ==
  /\ pc = "lint"
  /\ exists(lint_report)
  /\ ~fs.lint.readable
  /\ stderr' = Append(stderr, Line("traceback", lint_report, <<>>))
  /\ exit_status' = 1
  /\ pc' = "done"
  /\ UNCHANGED <<argv, fs, lint_issues, lineIdx, fileIdx, metrics, collected,
                 stdout, content, measured>>

LintOpen ==
  /\ pc = "lint"
  /\ exists(lint_report)
  /\ fs.lint.readable
  /\ pc' = "lint_read"
  /\ lineIdx' = 1
  /\ UNCHANGED <<argv, fs, lint_issues, fileIdx, metrics, collected, stdout,
                 stderr, exit_status, content, measured>>

LintLine ==
  /\ pc = "lint_read"
  /\ lineIdx <= Len(fs.lint.lines)
  /\ LET line == fs.lint.lines[lineIdx]
     IN  lint_issues' = IF IsDiagnostic(line)
                        THEN Incr(lint_issues, LintKey(line))
                        ELSE lint_issues
  /\ lineIdx' = lineIdx + 1
  /\ UNCHANGED <<pc, argv, fs, fileIdx, metrics, collected, stdout, stderr,
                 exit_status, content, measured>>

LintEnd ==
  /\ pc = "lint_read"
  /\ lineIdx > Len(fs.lint.lines)
  /\ pc' = "walk"
  /\ fileIdx' = 1
  /\ UNCHANGED <<argv, fs, lint_issues, lineIdx, metrics, collected, stdout,
                 stderr, exit_status, content, measured>>

(***************************************************************************)
(* analyze_swift_files: the walk                                           *)
(***************************************************************************)
FileMetrics(path, lc, tc, fc, cs, li) ==
  [path |-> path, line_count |-> lc, type_count |-> tc, function_count |-> fc,
   complexity_score |-> cs, lint_issues |-> li]

\* a join that looks the record's relative path up
Measure_relative_lookup(file_path, c) ==
  FileMetrics(relpath(file_path, root_dir), line_count(c), count_types(c),
              count_functions(c), calculate_complexity(c),
              Get(lint_issues, relpath(file_path, root_dir)))

\* the record of lines 101-108 for the file at file_path with text c
Measure(file_path, c) ==
  FileMetrics(relpath(file_path, root_dir), line_count(c), count_types(c),
              count_functions(c), calculate_complexity(c),
              Get(lint_issues, file_path))

WalkSkip ==
  /\ pc = "walk"
  /\ fileIdx <= Len(WalkList(root_dir))
  /\ ~should_analyze_file(FilePath(WalkList(root_dir)[fileIdx]))
  /\ fileIdx' = fileIdx + 1
  /\ UNCHANGED <<pc, argv, fs, lint_issues, lineIdx, metrics, collected,
                 stdout, stderr, exit_status, content, measured>>

\* a walk without the try/except: the first read error ends the run
WalkError_abort ==
  /\ pc = "walk"
  /\ fileIdx <= Len(WalkList(root_dir))
  /\ LET e == WalkList(root_dir)[fileIdx]
     IN  /\ should_analyze_file(FilePath(e))
         /\ ~e.readable
         /\ stderr' = Append(stderr, Line("traceback", FilePath(e), <<>>))
  /\ exit_status' = 1
  /\ pc' = "done"
  /\ UNCHANGED <<argv, fs, lint_issues, lineIdx, fileIdx, metrics, collected,
                 stdout, content, measured>>

WalkError ==
  /\ pc = "walk"
  /\ fileIdx <= Len(WalkList(root_dir))
  /\ LET e == WalkList(root_dir)[fileIdx]
     IN  /\ should_analyze_file(FilePath(e))
         /\ ~e.readable
         /\ stderr' = Append(stderr, Line("error", FilePath(e), <<>>))
  /\ fileIdx' = fileIdx + 1
  /\ UNCHANGED <<pc, argv, fs, lint_issues, lineIdx, metrics, collected,
                 stdout, exit_status, content, measured>>

\* a streaming walk: each record is printed as soon as it is measured
WalkAppend_streaming ==
  /\ pc = "walk"
  /\ fileIdx <= Len(WalkList(root_dir))
  /\ LET e == WalkList(root_dir)[fileIdx]
         m == Measure(FilePath(e), e.content)
     IN  /\ should_analyze_file(FilePath(e))
         /\ e.readable
         /\ metrics' = Append(metrics, m)
         /\ stdout' = Append(stdout, Line("entry", m.path,
                         <<m.line_count, m.type_count, m.function_count,
                           m.complexity_score, m.lint_issues>>))
  /\ fileIdx' = fileIdx + 1
  /\ UNCHANGED <<pc, argv, fs, lint_issues, lineIdx, collected, stderr,
                 exit_status, content, measured>>

\* a join written lint_issues[file_path]: reading a missing key inserts it
WalkAppend_inserting ==
  /\ pc = "walk"
  /\ fileIdx <= Len(WalkList(root_dir))
  /\ LET e == WalkList(root_dir)[fileIdx]
     IN  /\ should_analyze_file(FilePath(e))
         /\ e.readable
         /\ metrics' = Append(metrics, Measure(FilePath(e), e.content))
         /\ lint_issues' = [x \in DOMAIN lint_issues \cup {FilePath(e)}
                              |-> Get(lint_issues, x)]
  /\ fileIdx' = fileIdx + 1
  /\ UNCHANGED <<pc, argv, fs, lineIdx, collected, stdout, stderr,
                 exit_status, content, measured>>

WalkAppend ==
  /\ pc = "walk"
  /\ fileIdx <= Len(WalkList(root_dir))
  /\ LET e == WalkList(root_dir)[fileIdx]
     IN  /\ should_analyze_file(FilePath(e))
         /\ e.readable
         /\ metrics' = Append(metrics, Measure(FilePath(e), e.content))
  /\ fileIdx' = fileIdx + 1
  /\ UNCHANGED <<pc, argv, fs, lint_issues, lineIdx, collected, stdout,
                 stderr, exit_status, content, measured>>

\* return metrics
WalkEnd ==
  /\ pc = "walk"
  /\ fileIdx > Len(WalkList(root_dir))
  /\ collected' = metrics
  /\ pc' = "report"
  /\ UNCHANGED <<argv, fs, lint_issues, lineIdx, fileIdx, metrics, stdout,
                 stderr, exit_status, content, measured>>

(***************************************************************************)
(* generate_report                                                         *)
(***************************************************************************)
TopN == 10
TopRecs == 5

\* the sort key, in tenths: complexity_score + lint_issues * 0.5
SortKey(m) == m.complexity_score + m.lint_issues * 5

RECURSIVE Reverse(_)
Reverse(s) == IF s = <<>> THEN <<>> ELSE Append(Reverse(Tail(s)), Head(s))

RECURSIVE InsertAsc(_, _)
\* x goes behind every element whose key is not larger: the sort is stable
InsertAsc(x, s) ==
  IF s = <<>> THEN <<x>>
  ELSE IF SortKey(Head(s)) <= SortKey(x) THEN <<Head(s)>> \o InsertAsc(x, Tail(s))
  ELSE <<x>> \o s

RECURSIVE SortAsc(_)
SortAsc(s) ==
  IF s = <<>> THEN <<>>
  ELSE InsertAsc(s[Len(s)], SortAsc(SubSeq(s, 1, Len(s) - 1)))

\* an ascending sort that is reversed afterwards: equal keys change places
SortReverse_flip(s) == Reverse(SortAsc(s))

\* list.sort(key=..., reverse=True): the list is reversed, sorted by a
\* stable ascending sort and reversed again, which keeps equal keys in order
SortReverse(s) == Reverse(SortAsc(Reverse(s)))

RECURSIVE SumSeq(_)
SumSeq(q) == IF q = <<>> THEN 0 ELSE Head(q) + SumSeq(Tail(q))

\* metrics[:n]
Slice(s, n) == SubSeq(s, 1, IF Len(s) < n THEN Len(s) ELSE n)

\* lines 124-129
EntryLine(m) ==
  Line("entry", m.path,
       <<m.line_count, m.type_count, m.function_count, m.complexity_score,
         m.lint_issues>>)

\* totals taken over the ten listed entries only
SummaryLine_top(ms) ==
  LET top == SubSeq(ms, 1, IF Len(ms) < 10 THEN Len(ms) ELSE 10)
      total_lines == SumSeq([k \in 1..Len(top) |-> top[k].line_count])
      total_types == SumSeq([k \in 1..Len(top) |-> top[k].type_count])
      total_functions == SumSeq([k \in 1..Len(top) |-> top[k].function_count])
      total_issues == SumSeq([k \in 1..Len(top) |-> top[k].lint_issues])
  IN  Line("summary", <<>>,
           <<Len(top), total_lines, total_types, total_functions, total_issues>>)

\* lines 133-142
SummaryLine(ms) ==
  LET total_lines == SumSeq([k \in 1..Len(ms) |-> ms[k].line_count])
      total_types == SumSeq([k \in 1..Len(ms) |-> ms[k].type_count])
      total_functions == SumSeq([k \in 1..Len(ms) |-> ms[k].function_count])
      total_issues == SumSeq([k \in 1..Len(ms) |-> ms[k].lint_issues])
  IN  Line("summary", <<>>,
           <<Len(ms), total_lines, total_types, total_functions, total_issues>>)

\* the block's lines once the gate of line 148 is passed
RecBody(m, split_at) ==
  <<Line("rec_path", m.path, <<>>)>>
    \o (IF m.line_count > split_at THEN <<Line("rec_split", m.path, <<>>)>> ELSE <<>>)
    \o (IF m.type_count > 3 THEN <<Line("rec_types", m.path, <<>>)>> ELSE <<>>)
    \o (IF m.function_count > 10
        THEN <<Line("rec_functions", m.path, <<>>)>> ELSE <<>>)
    \o (IF m.lint_issues > 0 THEN <<Line("rec_lint", m.path, <<>>)>> ELSE <<>>)
    \o (IF m.complexity_score > 100
        THEN <<Line("rec_complexity", m.path, <<>>)>> ELSE <<>>)

\* a gate that asks for both conditions
RecLines_and(m) ==
  IF m.complexity_score > 50 /\ m.lint_issues > 0 THEN RecBody(m, 300) ELSE <<>>

\* a split threshold that is off by one
RecLines_split_299(m) ==
  IF m.complexity_score > 50 \/ m.lint_issues > 0 THEN RecBody(m, 299) ELSE <<>>

\* lines 148-162 for one entry
RecLines(m) ==
  IF m.complexity_score > 50 \/ m.lint_issues > 0 THEN RecBody(m, 300) ELSE <<>>

RECURSIVE Flatten(_)
Flatten(ss) == IF ss = <<>> THEN <<>> ELSE Head(ss) \o Flatten(Tail(ss))

\* everything generate_report prints for the sorted list ms
ReportLines(ms) ==
  <<Line("title", <<>>, <<>>), Line("top_header", <<>>, <<>>)>>
    \o [k \in 1..Len(Slice(ms, TopN)) |-> EntryLine(ms[k])]
    \o <<Line("summary_header", <<>>, <<>>), SummaryLine(ms)>>
    \o <<Line("rec_header", <<>>, <<>>)>>
    \o Flatten([k \in 1..Len(Slice(ms, TopRecs)) |-> RecLines(ms[k])])

\* generate_report(metrics), then the script ends
GenerateReport ==
  /\ pc = "report"
  /\ metrics' = SortReverse(metrics)
  /\ stdout' = stdout \o ReportLines(metrics')
  /\ exit_status' = 0
  /\ pc' = "done"
  /\ UNCHANGED <<argv, fs, lint_issues, lineIdx, fileIdx, collected, stderr,
                 content, measured>>

Next ==
  \/ MainUsage
  \/ MainRun
  \/ LintAbsent
  \/ LintOpenFails
  \/ LintOpen
  \/ LintLine
  \/ LintEnd
  \/ WalkSkip
  \/ WalkError
  \/ WalkAppend
  \/ WalkEnd
  \/ GenerateReport

Spec == Init /\ [][Next]_vars

(***************************************************************************)
(* The scorer on its own: the text is any concatenation of at most         *)
(* MaxFrags fragments, and Score measures it as lines 104-106 do.          *)
(***************************************************************************)
Fragments ==
  { <<"{">>, <<"!">>, <<"=">>, <<"?">>, <<".">>, <<" ">>, <<"x">>, <<"\n">>,
    <<" ", "x">>, <<"?", "?">>, <<"d", "e">>,
    s_if, s_guard, s_switch, s_while, s_for, s_as, s_try, s_escaping,
    s_closure, s_init, s_objc, s_extension, s_class, s_struct, s_enum,
    s_protocol, s_func }

Texts ==
  { Flatten(q) : q \in UNION { [1..n -> Fragments] : n \in 0..MaxFrags } }

InitScore ==
  /\ pc = "score"
  /\ content \in Texts
  /\ measured = NoMeasure
  /\ argv = <<s_r>>
  /\ fs = [root |-> s_r, tree |-> <<>>,
           lint |-> [exists |-> FALSE, readable |-> FALSE, lines |-> <<>>]]
  /\ lint_issues = <<>>
  /\ lineIdx = 0
  /\ fileIdx = 0
  /\ metrics = <<>>
  /\ collected = <<>>
  /\ stdout = <<>>
  /\ stderr = <<>>
  /\ exit_status = -1

Score ==
  /\ pc = "score"
  /\ measured' = [type_count |-> count_types(content),
                  function_count |-> count_functions(content),
                  complexity_score |-> calculate_complexity(content)]
  /\ pc' = "scored"
  /\ UNCHANGED <<argv, fs, lint_issues, lineIdx, fileIdx, metrics, collected,
                 stdout, stderr, exit_status, content>>

NextScore == Score

SpecScore == InitScore /\ [][NextScore]_vars

(***************************************************************************)
(* The report on its own: generate_report applied to any list of at most   *)
(* MaxRecords records of RecordPalette, or to a list of more than TopN     *)
(* records of LongPalette.  The k-th record's path is the k-th name.       *)
(***************************************************************************)
Names == <<"a","b","c","d","e","f","g","h","i","j","k","l","m","n","o","p">>

NameOf(k) == <<Names[k]>> \o s_swift

RecordPalette ==
  { FileMetrics(<<>>, 301, 0, 0, 30, 0),
    FileMetrics(<<>>, 301, 4, 11, 51, 0),
    FileMetrics(<<>>, 300, 3, 10, 50, 1),
    FileMetrics(<<>>, 10, 1, 1, 101, 0),
    FileMetrics(<<>>, 0, 0, 0, 0, 0),
    FileMetrics(<<>>, 5, 0, 0, 100, 2),
    FileMetrics(<<>>, 2, 0, 1, 55, 0),
    FileMetrics(<<>>, 1, 0, 0, 10, 0),
    FileMetrics(<<>>, 3, 0, 0, 20, 0) }

LongPalette ==
  { FileMetrics(<<>>, 301, 1, 2, 60, 1),
    FileMetrics(<<>>, 7, 0, 1, 30, 0) }

Named(q) == [k \in 1..Len(q) |-> [q[k] EXCEPT !.path = NameOf(k)]]

RecordLists ==
  { Named(q) : q \in UNION { [1..n -> RecordPalette] : n \in 0..MaxRecords } }
  \cup { Named(q) : q \in UNION { [1..n -> LongPalette] :
                                    n \in (TopN + 1)..(TopN + LongExtra) } }

InitReport ==
  /\ pc = "report"
  /\ metrics \in RecordLists
  /\ collected = metrics
  /\ argv = <<s_r>>
  /\ fs = [root |-> s_r, tree |-> <<>>,
           lint |-> [exists |-> FALSE, readable |-> FALSE, lines |-> <<>>]]
  /\ lint_issues = <<>>
  /\ lineIdx = 0
  /\ fileIdx = 0
  /\ stdout = <<>>
  /\ stderr = <<>>
  /\ exit_status = -1
  /\ content = <<>>
  /\ measured = NoMeasure

NextReport == GenerateReport

SpecReport == InitReport /\ [][NextReport]_vars

(***************************************************************************)
(* Properties of a whole run (specification Spec).                         *)
(***************************************************************************)
Range(q) == {q[k] : k \in 1..Len(q)}

Kinds(out) == {out[k].kind : k \in 1..Len(out)}

\* the run went through the walk and the report
Reported == pc = "done" /\ exit_status = 0

\* C1 (usage-error half): a run started with a wrong number of arguments, or
\* with one argument that is not a directory, ends with a failure status and
\* the usage message, having read no lint log, visited no file and printed
\* no report.
C1_UsageErrorExits ==
  (pc = "done" /\ (Len(argv) # 1 \/ ~isdir(argv[1])))
    => /\ exit_status # 0
       /\ "usage" \in Kinds(stdout)
       /\ "title" \notin Kinds(stdout)
       /\ lineIdx = 0
       /\ fileIdx = 0

\* the files the walk has dealt with so far
Visited ==
  IF pc = "walk" THEN fileIdx - 1
  ELSE IF pc = "report" \/ Reported THEN Len(WalkList(root_dir))
  ELSE 0

\* the list analyze_swift_files has built so far (it is sorted in place later)
Built == IF pc = "report" \/ pc = "done" THEN collected ELSE metrics

EligibleIdx(n) ==
  {k \in 1..n : should_analyze_file(FilePath(WalkList(root_dir)[k]))}

FailedIdx(n) == {k \in EligibleIdx(n) : ~WalkList(root_dir)[k].readable}

RecordsOf(e) ==
  LET rel == relpath(FilePath(e), root_dir)
  IN  {j \in 1..Len(Built) : Built[j].path = rel}

\* the run got past the argument check and the opening of the lint log
Scanning == Len(argv) = 1 /\ ~(exists(lint_report) /\ ~fs.lint.readable)

\* C2: every eligible file whose read fails is logged to the error channel
\* and contributes no record, every other eligible file contributes exactly
\* one complete record (its fields are compared once the walk has returned),
\* the walk goes on past a failure, the report's Total Files is eligible
\* minus failed, and the run ends with status 0.
C2_PartialFailure ==
  Scanning =>
    LET n == Visited
        list == WalkList(root_dir)
        eligible == EligibleIdx(n)
        failed == FailedIdx(n)
        total == Cardinality(eligible) - Cardinality(failed)
    IN  /\ Len(Built) = total
        /\ \A k \in failed :
             /\ Line("error", FilePath(list[k]), <<>>) \in Range(stderr)
             /\ RecordsOf(list[k]) = {}
        /\ \A k \in eligible \ failed :
             /\ Cardinality(RecordsOf(list[k])) = 1
             /\ \A j \in (IF pc = "walk" THEN {} ELSE RecordsOf(list[k])) :
                  /\ Built[j].line_count = line_count(list[k].content)
                  /\ Built[j].type_count = count_types(list[k].content)
                  /\ Built[j].function_count = count_functions(list[k].content)
                  /\ Built[j].complexity_score
                       = calculate_complexity(list[k].content)
        /\ pc = "done" =>
             /\ exit_status = 0
             /\ n = Len(list)
             /\ \E i \in 1..Len(stdout) :
                  stdout[i].kind = "summary" /\ stdout[i].vals[1] = total

\* three eligible files, one of them unreadable, reported as Total Files: 2
C2_Witness ==
  /\ Reported
  /\ Cardinality(EligibleIdx(Len(WalkList(root_dir)))) = 3
  /\ Cardinality(FailedIdx(Len(WalkList(root_dir)))) = 1
  /\ \E i \in 1..Len(stdout) : stdout[i].kind = "summary" /\ stdout[i].vals[1] = 2
  /\ "error" \in Kinds(stderr)

\* C3 as claimed: every record's lint_issues is the count the lint map holds
\* under the record's own path field, the path relative to the scan root.
C3_JoinByRecordPath ==
  \A k \in 1..Len(metrics) :
    metrics[k].lint_issues = Get(lint_issues, metrics[k].path)

\* C3 as amended: every record's lint_issues is the count the lint map holds
\* under the path the walk opened the file by, the root argument joined with
\* the record's path field, and 0 when the map has no such key.
C3_JoinByWalkedPath ==
  \A k \in 1..Len(metrics) :
    metrics[k].lint_issues = Get(lint_issues, Join(root_dir, metrics[k].path))

\* a file named by two diagnostic lines of the log is reported with 2
C3_Witness ==
  /\ Reported
  /\ \E k \in 1..Len(metrics) :
       /\ metrics[k].lint_issues = 2
       /\ Join(root_dir, metrics[k].path) \in DOMAIN lint_issues

\* the path segments of a file of the tree, root first
SegsOf(e) == Split(root_dir, sep) \o e.dir \o <<e.name>>

\* C5: a record is collected only for a file whose name ends with .swift and
\* none of whose path segments is an excluded directory name; no file under
\* an excluded segment ever has a record.
C5_EligibilityFilter ==
  Len(argv) = 1 =>
    /\ \A j \in 1..Len(metrics) :
         \E e \in Range(WalkList(root_dir)) :
           /\ metrics[j].path = JoinSegs(e.dir \o <<e.name>>)
           /\ EndsWith(e.name, s_swift)
           /\ Range(SegsOf(e)) \cap excluded_dirs = {}
    /\ \A e \in Range(WalkList(root_dir)) :
         Range(SegsOf(e)) \cap excluded_dirs # {}
           => \A j \in 1..Len(metrics) :
                metrics[j].path # JoinSegs(e.dir \o <<e.name>>)

\* a run over a tree that holds a .swift file under .build/S next to an
\* eligible file: only the eligible one is collected
C5_Witness ==
  /\ Reported
  /\ Len(metrics) = 1
  /\ \E e \in Range(WalkList(root_dir)) :
       /\ Len(e.dir) = 2
       /\ e.dir[1] \in excluded_dirs
       /\ EndsWith(e.name, s_swift)

\* the text of a line before its first ':' (the whole line if it has none)
BeforeColon(line) ==
  LET cs == {i \in 1..Len(line) : line[i] = ":"}
  IN  IF cs = {} THEN line
      ELSE SubSeq(line, 1, (CHOOSE i \in cs : \A j \in cs : i <= j) - 1)

HasMarker(line) ==
  \E i \in 1..Len(line) : LitAt(s_warning, line, i) \/ LitAt(s_error, line, i)

\* the lines of the lint log of the scanned root, none if it has no log
LogLines == IF exists(lint_report) THEN fs.lint.lines ELSE <<>>

\* the number of lines of the log the loader has read so far
LinesRead ==
  IF pc = "lint_read" THEN lineIdx - 1
  ELSE IF pc \in {"walk", "report"} \/ Reported THEN Len(LogLines)
  ELSE 0

PathsOfInterest ==
  DOMAIN lint_issues
    \cup {BeforeColon(LinePalette[k]) : k \in 1..Len(LinePalette)}
    \cup {<<"B","a","r",".","s","r","c">>, <<>>}

\* C8: without a lint log the map is empty and the run is no error; with one,
\* the map's count for every path is the number of log lines that hold a
\* severity marker and whose text before the first ':' is that path, so a
\* line without a marker changes nothing and an unmentioned path reads as 0.
C8_LintLoader ==
  Scanning =>
    /\ LET marked == {i \in 1..LinesRead : HasMarker(LogLines[i])}
           named == [i \in marked |-> BeforeColon(LogLines[i])]
       IN  \A p \in PathsOfInterest :
             Get(lint_issues, p) = Cardinality({i \in marked : named[i] = p})
    /\ \A p \in DOMAIN lint_issues : lint_issues[p] >= 1
    /\ ~exists(lint_report) => (lint_issues = <<>> /\ (pc = "done" => exit_status = 0))

\* two diagnostic lines for one path, one for another and one line without
\* a marker: counts 2 and 1
C8_Witness ==
  /\ pc = "walk"
  /\ Len(fs.lint.lines) = 3
  /\ \E p, q \in DOMAIN lint_issues :
       p # q /\ lint_issues[p] = 2 /\ lint_issues[q] = 1

\* a log whose only line has no marker leaves the map empty
C8_WitnessNoMarker ==
  /\ pc = "walk"
  /\ Len(fs.lint.lines) = 1
  /\ lint_issues = <<>>

(***************************************************************************)
(* Properties of generate_report (specification SpecReport).               *)
(***************************************************************************)
\* the position of a ranked record in the collected list (paths are unique)
PosOf(m) == CHOOSE k \in 1..Len(collected) : collected[k].path = m.path

\* the key of C4, from the record's fields: score + 0.5 * lint, in tenths
KeyOf(m) == m.complexity_score + 5 * m.lint_issues

\* C4: the ranked sequence is the collected one in descending order of
\* complexity_score + lint_issues * 0.5, and entries with equal keys keep
\* the relative order they were collected in.
C4_StableDescending ==
  Reported =>
    /\ Len(metrics) = Len(collected)
    /\ Range(metrics) = Range(collected)
    /\ \A i, j \in 1..Len(metrics) :
         i < j =>
           /\ KeyOf(metrics[i]) >= KeyOf(metrics[j])
           /\ KeyOf(metrics[i]) = KeyOf(metrics[j])
                => PosOf(metrics[i]) < PosOf(metrics[j])

\* scores 1.0, 3.0, 3.0, 2.0 without lint issues rank as 3.0, 3.0, 2.0, 1.0
\* with the first-collected 3.0 entry first
C4_Witness ==
  /\ Reported
  /\ [k \in 1..Len(collected) |-> collected[k].complexity_score] = <<10, 30, 30, 20>>
  /\ \A k \in 1..Len(collected) : collected[k].lint_issues = 0
  /\ [k \in 1..Len(metrics) |-> metrics[k].path]
       = <<NameOf(2), NameOf(3), NameOf(4), NameOf(1)>>

\* the kinds of recommendation lines printed for a path
RecKinds(path) ==
  {stdout[i].kind : i \in {k \in 1..Len(stdout) :
                             stdout[k].path = path /\ stdout[k].kind # "entry"}}

Listed(path) ==
  \E i \in 1..Len(stdout) : stdout[i].kind = "entry" /\ stdout[i].path = path

\* C6: an entry gets a recommendation block exactly if it is among the
\* first 5 of the ranking and has complexity_score > 5 or lint_issues > 0;
\* any other entry gets no recommendation line at all, while each of the
\* first 10 is listed.
C6_RecommendationGate ==
  Reported =>
    \A k \in 1..Len(metrics) :
      LET m == metrics[k]
          gated == k <= 5 /\ (m.complexity_score > 50 \/ m.lint_issues > 0)
      IN  /\ ("rec_path" \in RecKinds(m.path)) <=> gated
          /\ ~gated => RecKinds(m.path) = {}
          /\ Listed(m.path) <=> k <= 10

\* an entry with score 3.0 and no lint issue is listed without a block, next
\* to an entry that has one
C6_Witness ==
  /\ Reported
  /\ \E k \in 1..Len(metrics) :
       /\ k <= 5
       /\ metrics[k].complexity_score = 30
       /\ metrics[k].lint_issues = 0
       /\ Listed(metrics[k].path)
       /\ RecKinds(metrics[k].path) = {}
  /\ \E k \in 1..Len(metrics) : "rec_path" \in RecKinds(metrics[k].path)

\* C7 as claimed: every entry with line_count > 300 gets the 'split into
\* smaller files' line.
C7_SplitLineForLongFile ==
  Reported =>
    \A k \in 1..Len(metrics) :
      metrics[k].line_count > 300 => "rec_split" \in RecKinds(metrics[k].path)

\* C7 as amended: an entry gets the 'split into smaller files' line exactly
\* if it has line_count > 300, is among the first 5 of the ranking and has
\* complexity_score > 5 or lint_issues > 0.
C7_SplitLineWhenGated ==
  Reported =>
    \A k \in 1..Len(metrics) :
      LET m == metrics[k]
      IN  ("rec_split" \in RecKinds(m.path))
            <=> /\ m.line_count > 300
                /\ k <= 5
                /\ (m.complexity_score > 50 \/ m.lint_issues > 0)

\* an entry of 301 lines with the split line, and one of 300 lines with a
\* block that lacks it
C7_Witness ==
  /\ Reported
  /\ \E k \in 1..Len(metrics) :
       metrics[k].line_count = 301 /\ "rec_split" \in RecKinds(metrics[k].path)
  /\ \E k \in 1..Len(metrics) :
       /\ metrics[k].line_count = 300
       /\ RecKinds(metrics[k].path) = {"rec_path", "rec_lint"}

RECURSIVE Total(_, _)
\* the sum of f over the first n collected records
Total(f, n) == IF n = 0 THEN 0 ELSE Total(f, n - 1) + f[n]

\* C9: Total Files is the number of collected records and the four totals
\* are the sums of the fields over all collected records.
C9_SummaryOverAll ==
  Reported =>
    LET n == Len(collected)
        sums == {i \in 1..Len(stdout) : stdout[i].kind = "summary"}
    IN  /\ Cardinality(sums) = 1
        /\ \A i \in sums :
             stdout[i].vals
               = << n,
                    Total([k \in 1..n |-> collected[k].line_count], n),
                    Total([k \in 1..n |-> collected[k].type_count], n),
                    Total([k \in 1..n |-> collected[k].function_count], n),
                    Total([k \in 1..n |-> collected[k].lint_issues], n) >>

\* a report over more than ten records counts them all
C9_Witness ==
  /\ Reported
  /\ Len(collected) > 10
  /\ \E i \in 1..Len(stdout) :
       /\ stdout[i].kind = "summary"
       /\ stdout[i].vals[1] = Len(collected)
       /\ stdout[i].vals[2] > 301 * 10

\* a report over no record has all totals 0
C9_WitnessEmpty ==
  /\ Reported
  /\ collected = <<>>
  /\ \E i \in 1..Len(stdout) :
       stdout[i].kind = "summary" /\ stdout[i].vals = <<0, 0, 0, 0, 0>>

(***************************************************************************)
(* Properties of the scorer (specification SpecScore).                     *)
(***************************************************************************)
\* the number of places of c where lit stands, with a word boundary in
\* front if pre and one behind if post
Occ(lit, c, pre, post) ==
  Cardinality({i \in 1..Len(c) :
                 /\ LitAt(lit, c, i)
                 /\ pre => Boundary(c, i)
                 /\ post => Boundary(c, i + Len(lit))})

\* the '!' that are not followed by '='
Unwraps(c) ==
  Cardinality({i \in 1..Len(c) :
                 c[i] = "!" /\ ~(i < Len(c) /\ c[i + 1] = "=")})

RECURSIVE MarksBefore(_, _)
\* the number of '?' that stand directly in front of position i
MarksBefore(c, i) ==
  IF i > 1 /\ c[i - 1] = "?" THEN 1 + MarksBefore(c, i - 1) ELSE 0

\* the disjoint pairs '??', taken from the left of each run of '?'
Coalesces(c) ==
  Cardinality({i \in 1..Len(c) :
                 /\ LitAt(<<"?", "?">>, c, i)
                 /\ MarksBefore(c, i) % 2 = 0})

\* the places where the keyword kw, a word of its own, is followed by
\* white space and a word
Declarations(kw, c) ==
  Cardinality({i \in 1..Len(c) :
                 /\ LitAt(kw, c, i)
                 /\ Boundary(c, i)
                 /\ \E j \in (i + Len(kw) + 1)..Len(c) :
                      /\ \A k \in (i + Len(kw))..(j - 1) : c[k] \in SpaceChars
                      /\ c[j] \in WordChars})

\* the counts of the fourteen scored signals, in the order of the claim
SignalCounts(c) ==
  << Occ(<<"{">>, c, FALSE, FALSE),
     Occ(s_if, c, TRUE, TRUE) + Occ(s_guard, c, TRUE, TRUE)
       + Occ(s_switch, c, TRUE, TRUE) + Occ(s_while, c, TRUE, TRUE)
       + Occ(s_for, c, TRUE, TRUE),
     Unwraps(c),
     Occ(<<"a", "s", "!">>, c, FALSE, FALSE),
     Occ(<<"t", "r", "y", "?">>, c, FALSE, FALSE),
     Occ(<<"t", "r", "y", "!">>, c, FALSE, FALSE),
     Occ(<<"?", ".">>, c, FALSE, FALSE),
     Coalesces(c),
     Occ(s_escaping, c, FALSE, FALSE),
     Occ(s_closure, c, TRUE, TRUE),
     Occ(<<"i", "n", "i", "t", "?">>, c, TRUE, FALSE),
     Occ(s_deinit, c, TRUE, TRUE),
     Occ(s_objc, c, FALSE, TRUE),
     Occ(s_extension, c, TRUE, TRUE) >>

\* the weights of the claim, in tenths
Weights == <<1, 2, 3, 3, 2, 4, 1, 2, 3, 2, 2, 3, 2, 1>>

TypeDeclarations(c) ==
  Declarations(s_class, c) + Declarations(s_struct, c)
    + Declarations(s_enum, c) + Declarations(s_protocol, c)

\* C10: the score of a text is the sum of its signal counts times the
\* weights 0.1, 0.2, 0.3, 0.3, 0.2, 0.4, 0.1, 0.2, 0.3, 0.2, 0.2, 0.3, 0.2,
\* 0.1; a text without any match, the empty text among them, has score 0,
\* type_count 0 and function_count 0.
C10_WeightedSum ==
  pc = "scored" =>
    LET n == SignalCounts(content)
    IN  /\ measured.complexity_score
             = SumSeq([k \in 1..Len(Weights) |-> Weights[k] * n[k]])
        /\ (/\ \A k \in 1..Len(n) : n[k] = 0
            /\ TypeDeclarations(content) = 0
            /\ Declarations(s_func, content) = 0)
             => measured = [type_count |-> 0, function_count |-> 0,
                            complexity_score |-> 0]
        /\ content = <<>>
             => measured = [type_count |-> 0, function_count |-> 0,
                            complexity_score |-> 0]

\* the text "as!" scores 0.3 for the force-unwrap and 0.3 for the force-cast
C10_Witness ==
  /\ pc = "scored"
  /\ content = <<"a", "s", "!">>
  /\ measured.complexity_score = 6

\* the empty text scores 0 and counts nothing
C10_WitnessEmpty ==
  /\ pc = "scored"
  /\ content = <<>>
  /\ measured = [type_count |-> 0, function_count |-> 0, complexity_score |-> 0]

(***************************************************************************)
(* Properties of the order of a run's steps (specification Spec).          *)
(***************************************************************************)
\* the load of the lint log is over: the walk has begun or the run has ended
Loaded == pc \in {"walk", "report", "done"}

\* the paths named by the diagnostic lines of the whole log
NamedPaths ==
  {BeforeColon(LogLines[i]) : i \in {k \in 1..Len(LogLines) : HasMarker(LogLines[k])}}

\* C11: the lint map is complete before the first source file is opened
\* (every line of the log is read and every named path is a key), and from
\* then to the end of the run no step changes it: the lookup of a path
\* without an entry yields 0 and adds no key.
C11_LintMapReadOnly ==
  /\ [](pc = "walk" =>
          /\ exists(lint_report) => lineIdx = Len(LogLines) + 1
          /\ DOMAIN lint_issues = NamedPaths)
  /\ [][Loaded => lint_issues' = lint_issues]_vars

\* a finished run in which a collected file had no entry in a non-empty map:
\* it is reported with 0 and the map's keys are still the paths of the log
C11_Witness ==
  /\ Reported
  /\ lint_issues # <<>>
  /\ DOMAIN lint_issues = NamedPaths
  /\ \E k \in 1..Len(metrics) :
       /\ metrics[k].lint_issues = 0
       /\ Join(root_dir, metrics[k].path) \notin DOMAIN lint_issues

\* the lines of the report on standard output (the usage message is none)
ReportPart(out) == {i \in 1..Len(out) : out[i].kind # "usage"}

\* C12: no line of the report is on standard output before the walk has
\* returned the complete list of records; every message about a file goes
\* to the error stream, never to the report, and is written while standard
\* output is still empty; the listing and the summary of a report are taken
\* from the same complete list.
C12_CollectThenRank ==
  /\ [](ReportPart(stdout) # {} =>
          LET list == WalkList(root_dir)
              all == EligibleIdx(Len(list)) \ FailedIdx(Len(list))
          IN  /\ pc = "done"
              /\ fileIdx = Len(list) + 1
              /\ Len(collected) = Cardinality(all)
              /\ Range(metrics) = Range(collected)
              /\ \A i \in ReportPart(stdout) :
                   /\ stdout[i].kind \notin {"error", "traceback"}
                   /\ stdout[i].kind = "summary"
                        => stdout[i].vals[1] = Len(collected)
                   /\ stdout[i].kind = "entry"
                        => \E k \in 1..Len(collected) :
                             EntryLine(collected[k]) = stdout[i]
              /\ \A k \in 1..Len(collected) :
                   Len(collected) <= TopN => Listed(collected[k].path))
  /\ [](\A i \in 1..Len(stderr) : stderr[i].kind \in {"error", "traceback"})
  /\ [][stderr' # stderr => (stdout = <<>> /\ stdout' = <<>>)]_vars

\* a finished run that has written a message about an unreadable file and a
\* report that lists another file
C12_Witness ==
  /\ Reported
  /\ "error" \in Kinds(stderr)
  /\ "entry" \in Kinds(stdout)
  /\ "summary" \in Kinds(stdout)

====
